---------------------------- MODULE Spec2Model ----------------------------
(***************************************************************************)
(* A model of check_x509_expire.py: one run of the check, from the         *)
(* command line to the process exit code.                                  *)
(*                                                                         *)
(* Representation.                                                         *)
(*   - A command-line token is a sequence of one-character strings, so     *)
(*     that int() is modelled by parsing the characters.                   *)
(*   - A point in time (datetime) is an integer number of ticks; a day is  *)
(*     TicksPerDay ticks, so that times between two whole days exist.      *)
(*   - An optional value (Python's None or a value) is the empty set or a  *)
(*     singleton set.                                                      *)
(*   - A Python call that may raise returns a record whose field exc       *)
(*     names the exception class ("none" when it returns normally).        *)
(*   - out is what the run printed on standard output, one entry per       *)
(*     print call (traceback.print_exc writes to standard error).          *)
(***************************************************************************)
EXTENDS Integers, Sequences, FiniteSets, TLC

VARIABLES
    argv,        \* sys.argv, argv[1] is the program name (sys.argv[0])
    pc,          \* "main", "fetch", "evaluate" or "exit"
    ARGS,        \* the dictionary parse_args returned
    returncode,  \* proc.returncode of the openssl pipeline, once it ran
    stdout,      \* the pipeline's standard output, once it ran
    before,      \* the parsed notBefore, once parsed
    after,       \* the parsed notAfter, once parsed
    cur_time,    \* datetime.utcnow() as read by the evaluator, once read
    out,         \* the print calls made on standard output
    exit_code    \* the process exit code, once the process ended

vars == <<argv, pc, ARGS, returncode, stdout, before, after, cur_time, out, exit_code>>

---------------------------------------------------------------------------
(* Bounds of the model. *)

\* Times are 0..MaxTime ticks.
MaxTime == 8

\* Ticks per day: the resolution of the clock below one day.
TicksPerDay == 2

Times == 0 .. MaxTime

\* The validity dates a certificate may carry.
CertTimes == {t \in Times : t % 3 = 1}

---------------------------------------------------------------------------
(* Status codes and words. *)

STATUS_OK == 0

STATUS_WARNING == 1

STATUS_CRITICAL == 2

STATUS_UNKNOWN == 3

\* PREFIXES with the words of WARNING and CRITICAL exchanged.
PREFIXES_swapped == [c \in {STATUS_OK, STATUS_WARNING, STATUS_CRITICAL, STATUS_UNKNOWN} |->
               CASE c = STATUS_OK -> "OK"
                 [] c = STATUS_WARNING -> "CRITICAL"
                 [] c = STATUS_CRITICAL -> "WARNING"
                 [] c = STATUS_UNKNOWN -> "UNKNOWN"]

PREFIXES == [c \in {STATUS_OK, STATUS_WARNING, STATUS_CRITICAL, STATUS_UNKNOWN} |->
               CASE c = STATUS_OK -> "OK"
                 [] c = STATUS_WARNING -> "WARNING"
                 [] c = STATUS_CRITICAL -> "CRITICAL"
                 [] c = STATUS_UNKNOWN -> "UNKNOWN"]

---------------------------------------------------------------------------
(* Printed entries. *)

Diag(t) == [kind |-> "diag", text |-> t, after |-> {}, before |-> {}, days |-> {}]

\* The '%s - Expires: %s%s | days_remaining=%s' line.
StatusLine(word, aft, bef, d) ==
    [kind |-> "status", text |-> word, after |-> {aft}, before |-> bef, days |-> {d}]

---------------------------------------------------------------------------
(* Command-line tokens. *)

OptS == <<"-", "s">>
OptP == <<"-", "p">>
OptW == <<"-", "w">>
OptC == <<"-", "c">>
OptT == <<"-", "t">>
OptH == <<"-", "h">>
LongHelp == <<"-", "-", "h", "e", "l", "p">>
Prog == <<"c", "h", "e", "c", "k">>
Host == <<"h", "o", "s", "t">>
Smtp == <<"s", "m", "t", "p">>
Junk == <<"j", "u", "n", "k">>
Abc == <<"a", "b", "c">>
Tok443 == <<"4", "4", "3">>
TokMinus1 == <<"-", "1">>
Tok0 == <<"0">>
Tok1 == <<"1">>
Tok2 == <<"2">>
TokPlus2 == <<"+", "2">>
TokBillion == <<"1", "0", "0", "0", "0", "0", "0", "0", "0", "0">>
TokMinusBillion == <<"-", "1", "0", "0", "0", "0", "0", "0", "0", "0", "0">>

Digits == {"0", "1", "2", "3", "4", "5", "6", "7", "8", "9"}

DigitVal(ch) ==
    CASE ch = "0" -> 0 [] ch = "1" -> 1 [] ch = "2" -> 2 [] ch = "3" -> 3
      [] ch = "4" -> 4 [] ch = "5" -> 5 [] ch = "6" -> 6 [] ch = "7" -> 7
      [] ch = "8" -> 8 [] ch = "9" -> 9

RECURSIVE DecimalValue(_)
DecimalValue(ds) ==
    IF Len(ds) = 0 THEN 0
    ELSE DecimalValue(SubSeq(ds, 1, Len(ds) - 1)) * 10 + DigitVal(ds[Len(ds)])

\* int(tok): an optional sign and at least one decimal digit, else ValueError.
py_int(tok) ==
    LET signed == Len(tok) >= 1 /\ tok[1] \in {"-", "+"}
        ds == IF signed THEN SubSeq(tok, 2, Len(tok)) ELSE tok
    IN  IF Len(ds) >= 1 /\ \A k \in 1 .. Len(ds) : ds[k] \in Digits
        THEN [exc |-> "none",
              val |-> IF signed /\ tok[1] = "-" THEN 0 - DecimalValue(ds)
                      ELSE DecimalValue(ds)]
        ELSE [exc |-> "ValueError", val |-> 0]

---------------------------------------------------------------------------
(* usage, parse_args and the validation of the main block. *)

UsageLines ==
    << Diag("Usage: %s -s server -p port -w days -c days [-t <protocol>]"),
       Diag("-s server      server name"),
       Diag("-p port        port"),
       Diag("-w days        warning threshold"),
       Diag("-c days        critical threshold"),
       Diag("-t proto       starttls protocol") >>

NoArgs == [server |-> {}, port |-> {}, warning |-> {}, critical |-> {}, starttls |-> {}]

\* usage() after the prints `pre`: prints the usage text and raises SystemExit(3).
usage(pre, d) ==
    [exc |-> "SystemExit", code |-> {STATUS_UNKNOWN}, out |-> pre \o UsageLines, args |-> d]

\* The while loop of parse_args from index i (0-based, as in the source: sys.argv[i]
\* is sysargv[i + 1]) with the dictionary d.
RECURSIVE parse_args_loop(_, _, _)
parse_args_loop(sysargv, i, d) ==
    IF ~(i < Len(sysargv))
    THEN [exc |-> "none", code |-> {}, out |-> << >>, args |-> d]
    ELSE LET arg == sysargv[i + 1]
             hasValue == i + 1 < Len(sysargv)
             value == sysargv[i + 2]
         IN  CASE arg = OptS ->
                    IF hasValue
                    THEN parse_args_loop(sysargv, i + 2, [d EXCEPT !.server = {value}])
                    ELSE usage(<<Diag("-s requires a value, server")>>, d)
               [] arg = OptP ->
                    IF hasValue
                    THEN IF py_int(value).exc = "none"
                         THEN parse_args_loop(sysargv, i + 2,
                                              [d EXCEPT !.port = {py_int(value).val}])
                         ELSE usage(<<Diag("-p port must be an integer")>>, d)
                    ELSE usage(<<Diag("-p requires a value, port")>>, d)
               [] arg = OptW ->
                    IF hasValue
                    THEN IF py_int(value).exc = "none"
                         THEN parse_args_loop(sysargv, i + 2,
                                              [d EXCEPT !.warning = {py_int(value).val}])
                         ELSE usage(<<Diag("-w days must be an integer")>>, d)
                    ELSE usage(<<Diag("-w requires a value, days")>>, d)
               [] arg = OptC ->
                    IF hasValue
                    THEN IF py_int(value).exc = "none"
                         THEN parse_args_loop(sysargv, i + 2,
                                              [d EXCEPT !.critical = {py_int(value).val}])
                         ELSE usage(<<Diag("-c days must be an integer")>>, d)
                    ELSE usage(<<Diag("-c requires a value, days")>>, d)
               [] arg = OptT ->
                    IF hasValue
                    THEN parse_args_loop(sysargv, i + 2, [d EXCEPT !.starttls = {value}])
                    ELSE usage(<<Diag("-s requires a value, starttls protocol")>>, d)
               [] OTHER -> parse_args_loop(sysargv, i + 1, d)

parse_args(sysargv) == parse_args_loop(sysargv, 1, NoArgs)

TheOne(S) == CHOOSE x \in S : TRUE

\* The checks of the main block on the parsed dictionary, in the source's order;
\* "none" means run() is called.
validate(d) ==
    CASE d.server = {} -> usage(<<Diag("Server must be provided")>>, d)
      [] d.port = {} -> usage(<<Diag("Port must be provided")>>, d)
      [] d.warning = {} -> usage(<<Diag("Warning days must be provided")>>, d)
      [] d.critical = {} -> usage(<<Diag("Critical days must be provided")>>, d)
      [] TheOne(d.warning) < TheOne(d.critical) ->
           usage(<<Diag("Warning days must be greater than or equal to critical days")>>, d)
      [] OTHER -> [exc |-> "none", code |-> {}, out |-> << >>, args |-> d]

\* The body of the try block up to the call of run().
main_body(sysargv) ==
    IF Len(sysargv) = 1
       \/ \E k \in 1 .. Len(sysargv) : sysargv[k] \in {OptH, LongHelp}
    THEN usage(<< >>, NoArgs)
    ELSE LET p == parse_args(sysargv)
         IN  IF p.exc # "none" THEN [p EXCEPT !.args = NoArgs] ELSE validate(p.args)

\* A bare `except:` in place of `except Exception`: SystemExit is caught too.
except_BaseException(cls) == TRUE

\* The classes `except Exception` catches: every exception but those deriving
\* from BaseException alone, of which SystemExit is the one the program raises.
except_Exception(cls) == cls \in {"ValueError", "OverflowError", "OSError"}

\* The end of the process for a raised exception r: the handler of the main
\* block (two prints on standard output, exit CRITICAL) when it catches r's
\* class, else the interpreter's exit with SystemExit's code.
toplevel(r) ==
    IF except_Exception(r.exc)
    THEN [code |-> {STATUS_CRITICAL},
          out |-> r.out \o <<Diag("%s: Unhandled exception %s"), Diag(r.exc)>>]
    ELSE [code |-> r.code, out |-> r.out]

---------------------------------------------------------------------------
(* run(): the fetch, lines 124-151. *)

\* The exit statuses of the shell pipeline the model draws from.
ReturnCodes == {0, 1}

\* A date text is in the certificate format ("%b %d %H:%M:%S %Y %Z") and then
\* denotes the time t, or is not.
CertDate(t) == [fmt |-> "cert", t |-> t]
BadDate == [fmt |-> "malformed", t |-> 0]

\* A line of the tool's output: "notBefore=<value>", "notAfter=<value>" or
\* some other text.
NB(v) == [field |-> "notBefore", value |-> v]
NA(v) == [field |-> "notAfter", value |-> v]
OtherLine == [field |-> "other", value |-> BadDate]

\* The tool's output: its lines, and whether the last one ends with a newline.
Output(ls, nl) == [lines |-> ls, nl |-> nl]

ToolOutputs ==
    {Output(<<NB(CertDate(b)), NA(CertDate(a))>>, TRUE) : b \in CertTimes, a \in CertTimes}
    \cup {Output(<<NB(CertDate(1)), NA(CertDate(7)), OtherLine>>, nl) : nl \in BOOLEAN}
    \cup {Output(<<NB(CertDate(1)), NA(CertDate(4)), NB(CertDate(4)), NA(CertDate(7))>>, TRUE),
          Output(<< >>, FALSE),
          Output(<<OtherLine>>, TRUE),
          Output(<<NB(CertDate(1))>>, TRUE),
          Output(<<NB(CertDate(1)), NA(CertDate(4))>>, FALSE),
          Output(<<NA(CertDate(4)), NB(CertDate(1))>>, TRUE),
          Output(<<NA(CertDate(4)), NB(CertDate(1)), NA(CertDate(4))>>, TRUE),
          Output(<<NB(CertDate(1)), NB(CertDate(1)), NA(CertDate(4))>>, TRUE),
          Output(<<OtherLine, NB(CertDate(1)), NA(CertDate(4))>>, TRUE),
          Output(<<NB(BadDate), NA(CertDate(4))>>, TRUE),
          Output(<<NB(CertDate(1)), NA(BadDate)>>, TRUE)}

\* regex.match(stdout) for r"^notBefore=(.*)\nnotAfter=(.*)\n": a match at the
\* start of the text only, of a notBefore line and a newline-terminated notAfter
\* line; what follows them is not looked at.
regex_match(so) ==
    LET ls == so.lines
    IN  IF /\ Len(ls) >= 2
           /\ ls[1].field = "notBefore"
           /\ ls[2].field = "notAfter"
           /\ (Len(ls) > 2 \/ so.nl)
        THEN [matched |-> TRUE, before |-> ls[1].value, after |-> ls[2].value]
        ELSE [matched |-> FALSE, before |-> BadDate, after |-> BadDate]

\* datetime.strptime(text, cert_date_format)
strptime(text) ==
    IF text.fmt = "cert" THEN [exc |-> "none", val |-> text.t]
    ELSE [exc |-> "ValueError", val |-> 0]

\* run_fetch with the failure of the pipeline reported as UNKNOWN.
run_fetch_unknown(rc, so) ==
    IF rc = 0
    THEN LET m == regex_match(so)
         IN  IF m.matched
             THEN IF strptime(m.before).exc # "none"
                  THEN [exc |-> strptime(m.before).exc, code |-> {}, out |-> << >>,
                        before |-> {}, after |-> {}]
                  ELSE IF strptime(m.after).exc # "none"
                  THEN [exc |-> strptime(m.after).exc, code |-> {}, out |-> << >>,
                        before |-> {}, after |-> {}]
                  ELSE [exc |-> "none", code |-> {}, out |-> << >>,
                        before |-> {strptime(m.before).val},
                        after |-> {strptime(m.after).val}]
             ELSE [exc |-> "SystemExit", code |-> {STATUS_CRITICAL},
                   out |-> <<Diag("stdout"), Diag("Unexpected number of certificates")>>,
                   before |-> {}, after |-> {}]
    ELSE [exc |-> "SystemExit", code |-> {STATUS_UNKNOWN},
          out |-> <<Diag("Failed to execute %s %s %s")>>,
          before |-> {}, after |-> {}]

\* run() from the Popen call to the asserts, for a pipeline that ended with
\* status rc and wrote so: the dates, or the exception raised.
run_fetch(rc, so) ==
    IF rc = 0
    THEN LET m == regex_match(so)
         IN  IF m.matched
             THEN IF strptime(m.before).exc # "none"
                  THEN [exc |-> strptime(m.before).exc, code |-> {}, out |-> << >>,
                        before |-> {}, after |-> {}]
                  ELSE IF strptime(m.after).exc # "none"
                  THEN [exc |-> strptime(m.after).exc, code |-> {}, out |-> << >>,
                        before |-> {}, after |-> {}]
                  ELSE [exc |-> "none", code |-> {}, out |-> << >>,
                        before |-> {strptime(m.before).val},
                        after |-> {strptime(m.after).val}]
             ELSE [exc |-> "SystemExit", code |-> {STATUS_CRITICAL},
                   out |-> <<Diag("stdout"), Diag("Unexpected number of certificates")>>,
                   before |-> {}, after |-> {}]
    ELSE [exc |-> "SystemExit", code |-> {STATUS_CRITICAL},
          out |-> <<Diag("Failed to execute %s %s %s")>>,
          before |-> {}, after |-> {}]

---------------------------------------------------------------------------
(* run(): the evaluation, lines 153-168, and exit_with_perf_data. *)

\* datetime.timedelta accepts at most this many days in magnitude and raises
\* OverflowError beyond.
MaxTimedeltaDays == 999999999

\* timedelta with the days taken for the clock's own unit (timedelta(d) for
\* timedelta(days=d) in a clock that counts otherwise).
timedelta_unit(d) ==
    IF d > MaxTimedeltaDays \/ d < 0 - MaxTimedeltaDays
    THEN [exc |-> "OverflowError", val |-> 0]
    ELSE [exc |-> "none", val |-> d]

\* datetime.timedelta(days=d), in ticks.
timedelta(d) ==
    IF d > MaxTimedeltaDays \/ d < 0 - MaxTimedeltaDays
    THEN [exc |-> "OverflowError", val |-> 0]
    ELSE [exc |-> "none", val |-> d * TicksPerDay]

\* exit_with_perf_data with the subtraction reversed (cur_time - after).
exit_with_perf_data_reversed(aft, cur, code, bef, pre) ==
    LET time_remaining == cur - aft
        perf_data_days == <<time_remaining, TicksPerDay>>
    IN  [exc |-> "SystemExit", code |-> {code},
         out |-> pre \o <<StatusLine(PREFIXES[code], aft,
                                     IF bef # {} THEN bef ELSE {},
                                     perf_data_days)>>]

\* exit_with_perf_data(after, cur_time, exit_code, before) after the prints pre;
\* bef is {} for the default None. days_remaining is the fraction
\* time_remaining / TicksPerDay, kept as <<numerator, denominator>>.
exit_with_perf_data(aft, cur, code, bef, pre) ==
    LET time_remaining == aft - cur
        perf_data_days == <<time_remaining, TicksPerDay>>
    IN  [exc |-> "SystemExit", code |-> {code},
         out |-> pre \o <<StatusLine(PREFIXES[code], aft,
                                     IF bef # {} THEN bef ELSE {},
                                     perf_data_days)>>]

raise(cls) == [exc |-> cls, code |-> {}, out |-> << >>]

\* run_evaluate with the outer comparison strict (before < cur_time).
run_evaluate_strict(bef, aft, cur, warning, critical) ==
    IF bef < cur
    THEN IF aft >= cur
         THEN IF timedelta(warning).exc # "none" THEN raise(timedelta(warning).exc)
              ELSE IF aft - cur <= timedelta(warning).val
              THEN IF timedelta(critical).exc # "none" THEN raise(timedelta(critical).exc)
                   ELSE IF aft - cur <= timedelta(critical).val
                   THEN exit_with_perf_data(aft, cur, STATUS_CRITICAL, {}, << >>)
                   ELSE exit_with_perf_data(aft, cur, STATUS_WARNING, {}, << >>)
              ELSE exit_with_perf_data(aft, cur, STATUS_OK, {}, << >>)
         ELSE exit_with_perf_data(aft, cur, STATUS_CRITICAL, {},
                                  <<Diag("Certificate in no longer valid")>>)
    ELSE exit_with_perf_data(aft, cur, STATUS_CRITICAL, {bef},
                             <<Diag("Certificate is not yet valid")>>)

\* run_evaluate with the two statuses of the inner conditional exchanged.
run_evaluate_exchanged(bef, aft, cur, warning, critical) ==
    IF bef <= cur
    THEN IF aft >= cur
         THEN IF timedelta(warning).exc # "none" THEN raise(timedelta(warning).exc)
              ELSE IF aft - cur <= timedelta(warning).val
              THEN IF timedelta(critical).exc # "none" THEN raise(timedelta(critical).exc)
                   ELSE IF aft - cur <= timedelta(critical).val
                   THEN exit_with_perf_data(aft, cur, STATUS_WARNING, {}, << >>)
                   ELSE exit_with_perf_data(aft, cur, STATUS_CRITICAL, {}, << >>)
              ELSE exit_with_perf_data(aft, cur, STATUS_OK, {}, << >>)
         ELSE exit_with_perf_data(aft, cur, STATUS_CRITICAL, {},
                                  <<Diag("Certificate in no longer valid")>>)
    ELSE exit_with_perf_data(aft, cur, STATUS_CRITICAL, {bef},
                             <<Diag("Certificate is not yet valid")>>)

\* The nested conditional of run() for the dates bef and aft, the clock reading
\* cur and the thresholds; timedelta(days=critical) is built only inside the
\* warning gate, as in the source.
run_evaluate(bef, aft, cur, warning, critical) ==
    IF bef <= cur
    THEN IF aft >= cur
         THEN IF timedelta(warning).exc # "none" THEN raise(timedelta(warning).exc)
              ELSE IF aft - cur <= timedelta(warning).val
              THEN IF timedelta(critical).exc # "none" THEN raise(timedelta(critical).exc)
                   ELSE IF aft - cur <= timedelta(critical).val
                   THEN exit_with_perf_data(aft, cur, STATUS_CRITICAL, {}, << >>)
                   ELSE exit_with_perf_data(aft, cur, STATUS_WARNING, {}, << >>)
              ELSE exit_with_perf_data(aft, cur, STATUS_OK, {}, << >>)
         ELSE exit_with_perf_data(aft, cur, STATUS_CRITICAL, {},
                                  <<Diag("Certificate in no longer valid")>>)
    ELSE exit_with_perf_data(aft, cur, STATUS_CRITICAL, {bef},
                             <<Diag("Certificate is not yet valid")>>)

---------------------------------------------------------------------------
(* The command lines the model starts from: the options in the order of the  *)
(* usage text, each absent, given without a value, or given with a value,    *)
(* followed by one more segment (a help flag, a stray word, a repeated -w).  *)

DayTokens == {Abc, TokMinus1, Tok0, Tok1, Tok2, TokPlus2, TokBillion, TokMinusBillion}

SegS == {<< >>, <<OptS>>, <<OptS, Host>>}
SegP == {<< >>, <<OptP>>, <<OptP, Tok443>>, <<OptP, Abc>>}
SegW == {<< >>, <<OptW>>} \cup {<<OptW, v>> : v \in DayTokens}
SegC == {<< >>, <<OptC>>} \cup {<<OptC, v>> : v \in DayTokens}
SegT == {<< >>, <<OptT>>, <<OptT, Smtp>>}
SegX == {<< >>, <<OptH>>, <<LongHelp>>, <<Junk>>, <<OptW, Tok0>>, <<OptW, Abc, OptW, Tok1>>}

CommandLines ==
    {<<Prog>> \o s \o p \o w \o c \o t \o x :
        s \in SegS, p \in SegP, w \in SegW, c \in SegC, t \in SegT, x \in SegX}

---------------------------------------------------------------------------
(* The run as a state machine. *)

Init ==
    /\ argv \in CommandLines
    /\ pc = "main"
    /\ ARGS = NoArgs
    /\ returncode = {}
    /\ stdout = {}
    /\ before = {}
    /\ after = {}
    /\ cur_time = {}
    /\ out = << >>
    /\ exit_code = {}

\* The main block up to the call of run(): help, parse_args, the validation.
Main ==
    /\ pc = "main"
    /\ LET r == main_body(argv)
       IN  /\ ARGS' = r.args
           /\ IF r.exc = "none"
              THEN /\ pc' = "fetch"
                   /\ out' = out \o r.out
                   /\ exit_code' = {}
              ELSE /\ pc' = "exit"
                   /\ out' = out \o toplevel(r).out
                   /\ exit_code' = toplevel(r).code
    /\ UNCHANGED <<argv, returncode, stdout, before, after, cur_time>>

\* run() up to the parsed dates: the pipeline runs once and ends with some
\* status and some output.
Fetch ==
    /\ pc = "fetch"
    /\ \E rc \in ReturnCodes, so \in ToolOutputs :
         LET r == run_fetch(rc, so)
         IN  /\ returncode' = {rc}
             /\ stdout' = {so}
             /\ before' = r.before
             /\ after' = r.after
             /\ IF r.exc = "none"
                THEN /\ pc' = "evaluate"
                     /\ out' = out \o r.out
                     /\ exit_code' = {}
                ELSE /\ pc' = "exit"
                     /\ out' = out \o toplevel(r).out
                     /\ exit_code' = toplevel(r).code
    /\ UNCHANGED <<argv, ARGS, cur_time>>

\* run() from the reading of the clock to the exit.
Evaluate ==
    /\ pc = "evaluate"
    /\ \E now \in Times :
         LET r == run_evaluate(TheOne(before), TheOne(after), now,
                               TheOne(ARGS.warning), TheOne(ARGS.critical))
         IN  /\ cur_time' = {now}
             /\ pc' = "exit"
             /\ out' = out \o toplevel(r).out
             /\ exit_code' = toplevel(r).code
    /\ UNCHANGED <<argv, ARGS, returncode, stdout, before, after>>

Next == Main \/ Fetch \/ Evaluate

Spec == Init /\ [][Next]_vars

---------------------------------------------------------------------------
(* Vocabulary of the properties. *)

Warning == TheOne(ARGS.warning)
Critical == TheOne(ARGS.critical)
NotBefore == TheOne(before)
NotAfter == TheOne(after)
Now == TheOne(cur_time)
ExitCode == TheOne(exit_code)

Exited == pc = "exit"
FetchStarted == pc = "fetch" \/ returncode # {}
EvaluatorStarted == pc = "evaluate" \/ cur_time # {}
EvaluatorRan == Exited /\ cur_time # {}

\* The word of an exit code in the table of exit codes (0 OK, 1 WARNING,
\* 2 CRITICAL, 3 UNKNOWN).
StatusWord(c) ==
    CASE c = 0 -> "OK" [] c = 1 -> "WARNING" [] c = 2 -> "CRITICAL" [] c = 3 -> "UNKNOWN"

StatusLinesOf(o) == {k \in 1 .. Len(o) : o[k].kind = "status"}

\* rem ticks are at most d days (rem <= d * TicksPerDay, without forming the
\* product, which no machine integer holds for the largest d).
AtMostDays(rem, d) == (rem + TicksPerDay - 1) \div TicksPerDay <= d

\* The decision procedure as the specification words it, critical first.
CriticalFirst(rem, w, c) ==
    IF AtMostDays(rem, c) THEN STATUS_CRITICAL
    ELSE IF AtMostDays(rem, w) THEN STATUS_WARNING
    ELSE STATUS_OK

InWindow == NotBefore <= Now /\ Now <= NotAfter

InTimedeltaRange(d) == d <= MaxTimedeltaDays /\ 0 - MaxTimedeltaDays <= d

\* The conditional builds a timedelta from a threshold out of timedelta's range.
ThresholdOverflows(rem, w, c) ==
    \/ ~InTimedeltaRange(w)
    \/ AtMostDays(rem, w) /\ ~InTimedeltaRange(c)

\* The positions of the command line that parse_args reads as options: a flag
\* that is followed by a token takes that token as its value.
Flags == {OptS, OptP, OptW, OptC, OptT}

RECURSIVE OptionPositions(_, _)
OptionPositions(a, k) ==
    IF k > Len(a) THEN {}
    ELSE {k} \cup OptionPositions(a, IF a[k] \in Flags /\ k < Len(a) THEN k + 2 ELSE k + 1)

Given(a, f) == {k \in OptionPositions(a, 2) : a[k] = f}
Missing(a, f) == Given(a, f) = {}
WithoutValue(a, f) == \E k \in Given(a, f) : k = Len(a)
NonInteger(a, f) == \E k \in Given(a, f) : k < Len(a) /\ py_int(a[k + 1]).exc # "none"
Max(S) == CHOOSE x \in S : \A y \in S : y <= x
LastValue(a, f) == py_int(a[Max(Given(a, f)) + 1]).val

\* A validation failure, read off the command line.
ValidationFailure(a) ==
    \/ \E f \in {OptS, OptP, OptW, OptC} : Missing(a, f) \/ WithoutValue(a, f)
    \/ \E f \in {OptP, OptW, OptC} : NonInteger(a, f)
    \/ /\ \A f \in {OptW, OptC} : ~Missing(a, f) /\ ~WithoutValue(a, f) /\ ~NonInteger(a, f)
       /\ LastValue(a, OptW) < LastValue(a, OptC)

AllSet == ARGS.server # {} /\ ARGS.port # {} /\ ARGS.warning # {} /\ ARGS.critical # {}

---------------------------------------------------------------------------
(* C1 *)

\* C1: in a run whose clock reading lies in [notBefore, notAfter], the exit code
\* is the one the critical-first procedure gives for notAfter - now and the
\* thresholds (inclusive comparisons), for every pair of thresholds that passed
\* validation; it is never UNKNOWN.
C1_NestedEqualsCriticalFirst ==
    (EvaluatorRan /\ InWindow) =>
        exit_code = {CriticalFirst(NotAfter - Now, Warning, Critical)}

\* The same for thresholds that timedelta accepts: the part of C1 that the
\* code satisfies.
NestedEqualsCriticalFirstInRange ==
    (EvaluatorRan /\ InWindow /\ InTimedeltaRange(Warning) /\ InTimedeltaRange(Critical)) =>
        exit_code = {CriticalFirst(NotAfter - Now, Warning, Critical)}

BoundaryReached ==
    /\ EvaluatorRan /\ InWindow
    /\ Warning > Critical
    /\ NotAfter - Now = Warning * TicksPerDay
    /\ exit_code = {STATUS_WARNING}

---------------------------------------------------------------------------
(* C2 *)

\* C2: a command line with a validation failure (a required option missing or
\* without a value, a non-integer -p, -w or -c, warning < critical) ends with
\* exit code UNKNOWN without the fetch or the evaluator having started; and
\* wherever the fetch or the evaluator has started, server, port, warning and
\* critical are set and warning >= critical.
C2_ValidationFailureExitsUnknown ==
    /\ (Exited /\ ValidationFailure(argv)) =>
          exit_code = {STATUS_UNKNOWN} /\ ~FetchStarted /\ ~EvaluatorStarted
    /\ (FetchStarted \/ EvaluatorStarted) =>
          AllSet /\ Warning >= Critical /\ ~ValidationFailure(argv)

WarningBelowCriticalRejected ==
    /\ Exited
    /\ AllSet /\ Warning < Critical
    /\ exit_code = {STATUS_UNKNOWN}
    /\ returncode = {}

---------------------------------------------------------------------------
(* C3 *)

\* C3: when the clock reading is before notBefore the exit code is CRITICAL and
\* the status line carries 'Not valid until: <notBefore>'; when it is not, no
\* status line carries the clause.
C3_NotYetValid ==
    EvaluatorRan =>
        IF Now < NotBefore
        THEN /\ exit_code = {STATUS_CRITICAL}
             /\ StatusLinesOf(out) # {}
             /\ \A k \in StatusLinesOf(out) : out[k].before = {NotBefore}
        ELSE \A k \in StatusLinesOf(out) : out[k].before = {}

NotYetValidReached ==
    /\ EvaluatorRan
    /\ Now < NotBefore
    /\ exit_code = {STATUS_CRITICAL}
    /\ \E k \in StatusLinesOf(out) : out[k].before = {NotBefore}

---------------------------------------------------------------------------
(* C4 *)

\* C4: when the clock reading is after notAfter the exit code is CRITICAL and
\* the days_remaining of the status line is notAfter - now, a negative number.
C4_Expired ==
    (EvaluatorRan /\ Now > NotAfter) =>
        /\ exit_code = {STATUS_CRITICAL}
        /\ StatusLinesOf(out) # {}
        /\ \A k \in StatusLinesOf(out) :
              /\ out[k].days = {<<NotAfter - Now, TicksPerDay>>}
              /\ TheOne(out[k].days)[1] < 0

ExpiredReached ==
    /\ EvaluatorRan
    /\ NotBefore <= Now /\ Now > NotAfter
    /\ exit_code = {STATUS_CRITICAL}
    /\ \E k \in StatusLinesOf(out) : TheOne(out[k].days)[1] < 0

---------------------------------------------------------------------------
(* C5 *)

\* The exit code of a run of the evaluator that reads the clock at n.
CodeAt(n) == TheOne(toplevel(run_evaluate(NotBefore, NotAfter, n, Warning, Critical)).code)

\* C5: for the fetched window (notBefore <= notAfter) and the validated
\* thresholds, the exit code at a later clock reading is at least the exit code
\* at an earlier one, from notBefore on (OK < WARNING < CRITICAL).
C5_Monotone ==
    (pc = "evaluate" /\ NotBefore <= NotAfter) =>
        \A n1 \in Times, n2 \in Times :
            (NotBefore <= n1 /\ n1 <= n2) => CodeAt(n1) <= CodeAt(n2)

AllThreeSeveritiesInOrder ==
    /\ pc = "evaluate" /\ NotBefore <= NotAfter
    /\ \E n1 \in Times, n2 \in Times, n3 \in Times :
          /\ NotBefore <= n1 /\ n1 < n2 /\ n2 < n3
          /\ CodeAt(n1) = STATUS_OK
          /\ CodeAt(n2) = STATUS_WARNING
          /\ CodeAt(n3) = STATUS_CRITICAL

---------------------------------------------------------------------------
(* C6 *)

Rc == TheOne(returncode)
Stdout == TheOne(stdout)

\* The fetch failed: a non-zero status, output that does not match, or a
\* matched date that is not in the certificate format.
FetchFailed ==
    \/ Rc # 0
    \/ ~regex_match(Stdout).matched
    \/ regex_match(Stdout).before.fmt # "cert"
    \/ regex_match(Stdout).after.fmt # "cert"

\* C6: a run whose fetch failed ends with exit code CRITICAL, without a status
\* line and without the evaluator having run.
C6_FetchFailureIsCritical ==
    (Exited /\ returncode # {} /\ FetchFailed) =>
        /\ exit_code = {STATUS_CRITICAL}
        /\ StatusLinesOf(out) = {}
        /\ cur_time = {}

DateParseErrorReached ==
    /\ Exited /\ returncode = {0}
    /\ regex_match(Stdout).matched
    /\ regex_match(Stdout).after.fmt # "cert"
    /\ exit_code = {STATUS_CRITICAL}

---------------------------------------------------------------------------
(* C7 *)

ExactlyTwoDateFields(so) ==
    /\ Len(so.lines) = 2
    /\ so.lines[1].field = "notBefore"
    /\ so.lines[2].field = "notAfter"

\* C7: the evaluator starts only on output that is exactly a notBefore line
\* followed by a notAfter line.
C7_OnlyExactlyTwoFieldsEvaluated ==
    EvaluatorStarted => ExactlyTwoDateFields(Stdout)

---------------------------------------------------------------------------
(* C8 *)

\* C8: wherever the fetch or the evaluator has started, both thresholds are
\* non-negative.
C8_ThresholdsNonNegative ==
    (FetchStarted \/ EvaluatorStarted) => (Warning >= 0 /\ Critical >= 0)

---------------------------------------------------------------------------
(* C9 *)

\* C9: a run that reached the evaluator printed exactly one line, the status
\* line, whose word is that of the exit code.
C9_ExactlyOneLine ==
    EvaluatorRan =>
        /\ Len(out) = 1
        /\ out[1].kind = "status"
        /\ out[1].text = StatusWord(ExitCode)

\* C9 as amended: a run that reached the evaluator printed at most one status
\* line. When the evaluator reaches one of its five outcomes the status line is
\* the last line printed and its word is that of the exit code; it is the only
\* line in the critical, warning and ok outcomes, and exactly one diagnostic
\* line precedes it in the not-yet-valid and expired outcomes. When the
\* conditional builds a timedelta from a threshold out of range, no status line
\* is printed and the exit code is CRITICAL.
C9_OneStatusLineLast ==
    EvaluatorRan =>
        IF InWindow /\ ThresholdOverflows(NotAfter - Now, Warning, Critical)
        THEN StatusLinesOf(out) = {} /\ exit_code = {STATUS_CRITICAL}
        ELSE /\ StatusLinesOf(out) = {Len(out)}
             /\ out[Len(out)].text = StatusWord(ExitCode)
             /\ IF InWindow
                THEN Len(out) = 1
                ELSE Len(out) = 2 /\ out[1].kind = "diag"

DiagnosticBeforeStatusLine ==
    /\ EvaluatorRan
    /\ ~InWindow
    /\ Len(out) = 2
    /\ out[1].kind = "diag"
    /\ out[2].kind = "status"

---------------------------------------------------------------------------
(* C10 *)

\* C10: the exit code is OK only when validation passed, the pipeline returned
\* 0, its output was parsed into the two dates, the clock reading lies in
\* [notBefore, notAfter] and notAfter - now exceeds warning days; and a run
\* that ended has an exit code.
C10_NoFalseOK ==
    /\ Exited => exit_code # {}
    /\ exit_code = {STATUS_OK} =>
          /\ AllSet /\ Warning >= Critical /\ ~ValidationFailure(argv)
          /\ returncode = {0}
          /\ regex_match(Stdout).matched
          /\ before = {regex_match(Stdout).before.t}
          /\ after = {regex_match(Stdout).after.t}
          /\ regex_match(Stdout).before.fmt = "cert"
          /\ regex_match(Stdout).after.fmt = "cert"
          /\ cur_time # {}
          /\ InWindow
          /\ ~AtMostDays(NotAfter - Now, Warning)

OKReached ==
    /\ Exited
    /\ exit_code = {STATUS_OK}
    /\ Warning > 0
    /\ NotAfter - Now > Warning * TicksPerDay

====
